---- MODULE Spec2Model ----
(***************************************************************************)
(* Model of "Notebook 3 - Time Series Test Errors and CV": the marathon    *)
(* holdout split with its two test RMSEs, the rolling cross-validation     *)
(* splits of the measles training data, the three baseline forecasters,    *)
(* get_rmse, and the mean of the per-split RMSEs.                          *)
(*                                                                         *)
(* A data frame is modelled by its value column (a sequence of integers);  *)
(* its index is the default 0-based row numbering.  Python positions are   *)
(* 0-based, TLA+ sequences 1-based: position p is element p+1.             *)
(* Numbers produced by the arithmetic are exact rationals; a square root   *)
(* that is not rational is kept symbolically.                              *)
(* The literals 24 (horizon) and 5 (holdout length) of the notebook are    *)
(* the variables H and L, drawn from small ranges.                         *)
(***************************************************************************)
EXTENDS Integers, Sequences, FiniteSets, TLC

\* ---------------------------------------------------------------- bounds
MaxN == 7
MaxH == 3
MaxL == 3
MaxVal == 1
MaxF == 3

Values == 0..MaxVal

VARIABLES
    pc,                  \* which cell / loop of the notebook runs next
    H,                   \* the horizon (24 in the notebook)
    measles_train,       \* the cases column of measles_train
    i,                   \* loop variable of the CV split loop
    test_index,          \* list of test index lists
    train_index,         \* list of train index lists
    z,                   \* position of the zip() iterator of the running loop
    pred,                \* the forecast of the last loop iteration
    avg_rmses, naive_rmses, seasonal_naive_rmses,
    avg_mean, naive_mean, seasonal_mean,   \* the three np.mean values printed
    L,                   \* the holdout length (5 in the notebook)
    marathon,            \* the time column of marathon
    marathon_train, marathon_test,         \* row labels of the holdout split
    rmse,                \* the holdout RMSE computed last
    reported,            \* the holdout RMSEs handed to print, in order
    f_train, f_test, f_who, f_result       \* one direct forecaster call

vars == <<pc, H, measles_train, i, test_index, train_index, z, pred,
          avg_rmses, naive_rmses, seasonal_naive_rmses,
          avg_mean, naive_mean, seasonal_mean,
          L, marathon, marathon_train, marathon_test, rmse, reported,
          f_train, f_test, f_who, f_result>>

cvVars == <<H, measles_train, i, test_index, train_index, z, pred,
            avg_rmses, naive_rmses, seasonal_naive_rmses,
            avg_mean, naive_mean, seasonal_mean>>
holdoutVars == <<L, marathon, marathon_train, marathon_test, rmse, reported>>
callVars == <<f_train, f_test, f_who, f_result>>

\* ------------------------------------------------------- numeric values
\* A number is a record [kind, n, d]:
\*   kind = "rat"  : the rational n/d, d > 0, in lowest terms
\*   kind = "sqrt" : the irrational square root of n/d
\*   kind = "nan"  : NaN
\*   kind = "ValueError" : the expression raised instead of yielding a number
Abs(x) == IF x < 0 THEN -x ELSE x

RECURSIVE GCD(_, _)
GCD(a, b) == IF b = 0 THEN a ELSE GCD(b, a % b)

Rat(n, d) ==
    LET g == GCD(Abs(n), d)
    IN  IF n = 0 THEN [kind |-> "rat", n |-> 0, d |-> 1]
        ELSE [kind |-> "rat", n |-> n \div g, d |-> d \div g]

Zero == Rat(0, 1)
NaN == [kind |-> "nan", n |-> 0, d |-> 1]
ValueError == [kind |-> "ValueError", n |-> 0, d |-> 1]

RInt(n) == Rat(n, 1)
RAdd(a, b) == Rat(a.n * b.d + b.n * a.d, a.d * b.d)
RSub(a, b) == Rat(a.n * b.d - b.n * a.d, a.d * b.d)
RMul(a, b) == Rat(a.n * b.n, a.d * b.d)
RDivInt(a, m) == Rat(a.n, a.d * m)

RECURSIVE RSum(_)
RSum(s) == IF Len(s) = 0 THEN Zero ELSE RAdd(s[1], RSum(Tail(s)))

IsSquare(m) == \E r \in 0..m : r * r = m
ISqrt(m) == CHOOSE r \in 0..m : r * r = m

\* np.sqrt of a non-negative rational
np_sqrt(q) ==
    IF IsSquare(q.n) /\ IsSquare(q.d)
    THEN Rat(ISqrt(q.n), ISqrt(q.d))
    ELSE [kind |-> "sqrt", n |-> q.n, d |-> q.d]

\* ---------------------------------------------------------- Python lists
\* Python's slice bounds: a negative bound counts from the end, and every
\* bound is clamped to [0, len].
Clamp(x, len) == IF x < 0 THEN 0 ELSE IF x > len THEN len ELSE x
PyBound(b, len) == IF b < 0 THEN Clamp(b + len, len) ELSE Clamp(b, len)

\* s[lo:hi]
PySlice(s, lo, hi) ==
    LET a == PyBound(lo, Len(s))
        b == PyBound(hi, Len(s))
    IN  IF a >= b THEN <<>> ELSE SubSeq(s, a + 1, b)
\* s[lo:]
PySliceFrom(s, lo) ==
    LET a == PyBound(lo, Len(s))
    IN  IF a >= Len(s) THEN <<>> ELSE SubSeq(s, a + 1, Len(s))
\* s[:hi]
PySliceTo(s, hi) ==
    LET b == PyBound(hi, Len(s))
    IN  IF b <= 0 THEN <<>> ELSE SubSeq(s, 1, b)

\* the default index of a frame of len rows: 0, 1, ..., len-1
RangeIndex(len) == [k \in 1..len |-> k - 1]

\* df.iloc[idx,] : the rows at the listed positions, in that order
iloc(df, idx) == [k \in 1..Len(idx) |-> df[idx[k] + 1]]

\* df.drop(labels) on the index: the labels that are not listed
RECURSIVE drop(_, _)
drop(idx, labels) ==
    IF Len(idx) = 0 THEN <<>>
    ELSE IF \E k \in 1..Len(labels) : labels[k] = idx[1]
         THEN drop(Tail(idx), labels)
         ELSE <<idx[1]>> \o drop(Tail(idx), labels)

Range(s) == {s[k] : k \in 1..Len(s)}

\* c * np.ones(len)
Scale(c, len) == [k \in 1..len |-> c]

\* Series.mean(): NaN for an empty column
Mean(col) ==
    IF Len(col) = 0 THEN NaN
    ELSE RDivInt(RSum([k \in 1..Len(col) |-> RInt(col[k])]), Len(col))

\* RootMeanSquare with the residual's sign slipped: res = p + actual
RootMeanSquareSignSlip(p, actual) ==
    IF Len(p) = 0 THEN NaN
    ELSE IF \E k \in 1..Len(p) : p[k].kind = "nan" THEN NaN
    ELSE LET res == [k \in 1..Len(p) |-> RAdd(p[k], RInt(actual[k]))]
             sq  == [k \in 1..Len(p) |-> RMul(res[k], res[k])]
         IN  np_sqrt(RDivInt(RSum(sq), Len(res)))

\* np.sqrt(np.sum(np.power(res,2))/len(res)) for res = p - actual, where p
\* is a sequence of numbers and actual a column of integers
RootMeanSquare(p, actual) ==
    IF Len(p) = 0 THEN NaN
    ELSE IF \E k \in 1..Len(p) : p[k].kind = "nan" THEN NaN
    ELSE LET res == [k \in 1..Len(p) |-> RSub(p[k], RInt(actual[k]))]
             sq  == [k \in 1..Len(p) |-> RMul(res[k], res[k])]
         IN  np_sqrt(RDivInt(RSum(sq), Len(res)))

\* ------------------------------------------------------ notebook functions
\* A forecaster yields [exc, val]: exc = "" and val the forecast, or exc the
\* name of the exception it raised.
Returns(v) == [exc |-> "", val |-> v]
Raises(e) == [exc |-> e, val |-> <<>>]

\* pred - actual raises when the two lengths differ
get_rmse(p, actual) ==
    IF Len(p) # Len(actual) THEN ValueError ELSE RootMeanSquare(p, actual)

naive_forecast(train, test) ==
    IF Len(train) = 0 THEN Raises("IndexError")
    ELSE Returns(Scale(RInt(train[Len(train)]), Len(test)))

\* avg_forecast averaging over the test rows as well
avg_forecast_peeking(train, test) == Returns(Scale(Mean(train \o test), Len(test)))

avg_forecast(train, test) == Returns(Scale(Mean(train), Len(test)))

\* naive_seasonal_forecast with the slice start off by one
naive_seasonal_forecast_off_by_one(train, test) ==
    LET last == PySliceFrom(train, -Len(test) - 1)
    IN  Returns([k \in 1..Len(last) |-> RInt(last[k])])

naive_seasonal_forecast(train, test) ==
    LET last == PySliceFrom(train, -Len(test))
    IN  Returns([k \in 1..Len(last) |-> RInt(last[k])])

\* np.mean of a list of RMSE values: [kind, n, d, terms] with
\*   kind = "nan" : the list is empty (or holds a NaN)
\*   kind = "rat" : n/d, every term being rational
\*   kind = "irr" : (the sum of terms) / Len(terms), some term irrational
np_mean(xs) ==
    IF Len(xs) = 0 \/ (\E k \in 1..Len(xs) : xs[k].kind = "nan")
    THEN [kind |-> "nan", n |-> 0, d |-> 1, terms |-> <<>>]
    ELSE IF \A k \in 1..Len(xs) : xs[k].kind = "rat"
         THEN LET m == RDivInt(RSum(xs), Len(xs))
              IN  [kind |-> "rat", n |-> m.n, d |-> m.d, terms |-> <<>>]
         ELSE [kind |-> "irr", n |-> 0, d |-> 1, terms |-> xs]

\* ------------------------------------------------------------ the CV loop
\* range(1, int(len(measles_train)/24)) : the exclusive upper end
\* the range running one iteration further
RangeStopPlusOne(len, h) == len \div h + 1
\* the range running for as long as the train window is not empty
RangeStopNonEmptyTrain(len, h) == (len - 1) \div h + 1

RangeStop(len, h) == len \div h

\* the test slice without the special case for the first iteration
TestSliceNoFirstCase(idx, it, h) == PySlice(idx, -h * it, -h * (it - 1))

\* lines 211-214
TestSlice(idx, it, h) ==
    IF it > 1 THEN PySlice(idx, -h * it, -h * (it - 1))
    ELSE PySliceFrom(idx, -h)

\* a train window of fixed size sliding back instead of a growing prefix
TrainSliceSliding(idx, it, h) == PySlice(idx, -h * (it + 1), -h * it)

\* line 216
TrainSlice(idx, it, h) == PySliceTo(idx, -h * it)

N == Len(measles_train)

CVSplitIter ==
    /\ pc = "cv_split"
    /\ i < RangeStop(N, H)
    /\ test_index' = Append(test_index, TestSlice(RangeIndex(N), i, H))
    /\ train_index' = Append(train_index, TrainSlice(RangeIndex(N), i, H))
    /\ i' = i + 1
    /\ UNCHANGED <<pc, H, measles_train, z, pred, avg_rmses, naive_rmses,
                   seasonal_naive_rmses, avg_mean, naive_mean, seasonal_mean>>
    /\ UNCHANGED <<holdoutVars, callVars>>

CVSplitDone ==
    /\ pc = "cv_split"
    /\ ~(i < RangeStop(N, H))
    /\ pc' = "avg"
    /\ z' = 1
    /\ UNCHANGED <<H, measles_train, i, test_index, train_index, pred,
                   avg_rmses, naive_rmses, seasonal_naive_rmses,
                   avg_mean, naive_mean, seasonal_mean>>
    /\ UNCHANGED <<holdoutVars, callVars>>

\* zip(train_index, test_index) yields while both lists have an element
ZipHasNext == z <= Len(train_index) /\ z <= Len(test_index)

\* measles_train.iloc[i,] and measles_train.iloc[j,] of the k-th zip pair
TrainOf(series, k) == iloc(series, train_index[k])
TestOf(series, k) == iloc(series, test_index[k])

\* a for loop over zip() ends and the next cell starts
NextCell(p) ==
    IF p = "avg" THEN "naive" ELSE IF p = "naive" THEN "seasonal" ELSE "compare"

\* One iteration of a forecasting loop with forecaster result f: an
\* exception ends the cell; otherwise pred is assigned and its RMSE is
\* appended to the loop's list.
LoopBody(f, rmses) ==
    LET e == get_rmse(f.val, TestOf(measles_train, z))
    IN  IF f.exc # ""
        THEN [pc |-> NextCell(pc), z |-> 1, pred |-> pred, rmses |-> rmses]
        ELSE IF e.kind = "ValueError"
        THEN [pc |-> NextCell(pc), z |-> 1, pred |-> f, rmses |-> rmses]
        ELSE [pc |-> pc, z |-> z + 1, pred |-> f, rmses |-> Append(rmses, e)]

AvgIter ==
    /\ pc = "avg"
    /\ ZipHasNext
    /\ LET r == LoopBody(avg_forecast(TrainOf(measles_train, z),
                                  TestOf(measles_train, z)), avg_rmses)
       IN  /\ pc' = r.pc
           /\ z' = r.z
           /\ pred' = r.pred
           /\ avg_rmses' = r.rmses
    /\ UNCHANGED <<H, measles_train, i, test_index, train_index,
                   naive_rmses, seasonal_naive_rmses,
                   avg_mean, naive_mean, seasonal_mean>>
    /\ UNCHANGED <<holdoutVars, callVars>>

NaiveIter ==
    /\ pc = "naive"
    /\ ZipHasNext
    /\ LET r == LoopBody(naive_forecast(TrainOf(measles_train, z),
                                    TestOf(measles_train, z)), naive_rmses)
       IN  /\ pc' = r.pc
           /\ z' = r.z
           /\ pred' = r.pred
           /\ naive_rmses' = r.rmses
    /\ UNCHANGED <<H, measles_train, i, test_index, train_index,
                   avg_rmses, seasonal_naive_rmses,
                   avg_mean, naive_mean, seasonal_mean>>
    /\ UNCHANGED <<holdoutVars, callVars>>

SeasonalIter ==
    /\ pc = "seasonal"
    /\ ZipHasNext
    /\ LET r == LoopBody(naive_seasonal_forecast(TrainOf(measles_train, z),
                                             TestOf(measles_train, z)),
                     seasonal_naive_rmses)
       IN  /\ pc' = r.pc
           /\ z' = r.z
           /\ pred' = r.pred
           /\ seasonal_naive_rmses' = r.rmses
    /\ UNCHANGED <<H, measles_train, i, test_index, train_index,
                   avg_rmses, naive_rmses,
                   avg_mean, naive_mean, seasonal_mean>>
    /\ UNCHANGED <<holdoutVars, callVars>>

LoopDone ==
    /\ pc \in {"avg", "naive", "seasonal"}
    /\ ~ZipHasNext
    /\ pc' = NextCell(pc)
    /\ z' = 1
    /\ UNCHANGED <<H, measles_train, i, test_index, train_index, pred,
                   avg_rmses, naive_rmses, seasonal_naive_rmses,
                   avg_mean, naive_mean, seasonal_mean>>
    /\ UNCHANGED <<holdoutVars, callVars>>

Compare ==
    /\ pc = "compare"
    /\ avg_mean' = np_mean(avg_rmses)
    /\ naive_mean' = np_mean(naive_rmses)
    /\ seasonal_mean' = np_mean(seasonal_naive_rmses)
    /\ pc' = "done"
    /\ UNCHANGED <<H, measles_train, i, test_index, train_index, z, pred,
                   avg_rmses, naive_rmses, seasonal_naive_rmses>>
    /\ UNCHANGED <<holdoutVars, callVars>>

\* ------------------------------------------------------ the holdout cells
\* the holdout slice with the minus sign lost: iloc[:5,]
HoldoutTrainHead(idx, len) == PySliceTo(idx, len)

\* marathon_copy.iloc[:-5,] : the row labels kept
HoldoutTrain(idx, len) == PySliceTo(idx, -len)
\* marathon_copy.drop(marathon_train.index) : the row labels left
HoldoutTest(idx, trainIdx) == drop(idx, trainIdx)

\* np.sqrt(np.sum(np.power(marathon_test.time - p,2))/len(marathon_test))
HoldoutRmse(p) ==
    LET actual == iloc(marathon, marathon_test)
    IN  RootMeanSquare(Scale(p, Len(actual)), actual)

MarathonSplit ==
    /\ pc = "m_split"
    /\ marathon_train' = HoldoutTrain(RangeIndex(Len(marathon)), L)
    /\ marathon_test' = HoldoutTest(RangeIndex(Len(marathon)), marathon_train')
    /\ pc' = "m_avg"
    /\ UNCHANGED <<L, marathon, rmse, reported>>
    /\ UNCHANGED <<cvVars, callVars>>

MarathonAvg ==
    /\ pc = "m_avg"
    /\ rmse' = HoldoutRmse(Mean(iloc(marathon, marathon_train)))
    /\ reported' = Append(reported, rmse')
    /\ pc' = "m_naive"
    /\ UNCHANGED <<L, marathon, marathon_train, marathon_test>>
    /\ UNCHANGED <<cvVars, callVars>>

\* marathon_train.time.iloc[-1] raises IndexError on an empty frame, and
\* the cell then stops before rmse is assigned or printed
MarathonNaive ==
    /\ pc = "m_naive"
    /\ IF Len(marathon_train) = 0
       THEN UNCHANGED <<rmse, reported>>
       ELSE /\ rmse' = HoldoutRmse(RInt(marathon[marathon_train[Len(marathon_train)] + 1]))
            /\ reported' = Append(reported, rmse')
    /\ pc' = "m_done"
    /\ UNCHANGED <<L, marathon, marathon_train, marathon_test>>
    /\ UNCHANGED <<cvVars, callVars>>

\* ------------------------------------------------- direct forecaster calls
CallNaive ==
    /\ pc = "f_call"
    /\ f_who' = "naive"
    /\ f_result' = naive_forecast(f_train, f_test)
    /\ pc' = "f_done"
    /\ UNCHANGED <<f_train, f_test>>
    /\ UNCHANGED <<cvVars, holdoutVars>>

CallAvg ==
    /\ pc = "f_call"
    /\ f_who' = "avg"
    /\ f_result' = avg_forecast(f_train, f_test)
    /\ pc' = "f_done"
    /\ UNCHANGED <<f_train, f_test>>
    /\ UNCHANGED <<cvVars, holdoutVars>>

CallSeasonal ==
    /\ pc = "f_call"
    /\ f_who' = "seasonal"
    /\ f_result' = naive_seasonal_forecast(f_train, f_test)
    /\ pc' = "f_done"
    /\ UNCHANGED <<f_train, f_test>>
    /\ UNCHANGED <<cvVars, holdoutVars>>

\* ---------------------------------------------------------- specifications
SeqsUpTo(S, lo, hi) == UNION {[1..len -> S] : len \in lo..hi}

NoForecast == Raises("unset")
NoNumber == [kind |-> "unset", n |-> 0, d |-> 1]
NoMean == [kind |-> "unset", n |-> 0, d |-> 1, terms |-> <<>>]

IdleCV ==
    /\ H = 0
    /\ measles_train = <<>>
    /\ i = 1
    /\ test_index = <<>>
    /\ train_index = <<>>
    /\ z = 1
    /\ pred = NoForecast
    /\ avg_rmses = <<>>
    /\ naive_rmses = <<>>
    /\ seasonal_naive_rmses = <<>>
    /\ avg_mean = NoMean
    /\ naive_mean = NoMean
    /\ seasonal_mean = NoMean

IdleHoldout ==
    /\ L = 0
    /\ marathon = <<>>
    /\ marathon_train = <<>>
    /\ marathon_test = <<>>
    /\ rmse = NoNumber
    /\ reported = <<>>

IdleCall ==
    /\ f_train = <<>>
    /\ f_test = <<>>
    /\ f_who = "unset"
    /\ f_result = NoForecast

\* The measles cells: the training frame is loaded, the CV split cell is next.
Init ==
    /\ pc = "cv_split"
    /\ H \in 1..MaxH
    /\ measles_train \in SeqsUpTo(Values, 1, MaxN)
    /\ i = 1
    /\ test_index = <<>>
    /\ train_index = <<>>
    /\ z = 1
    /\ pred = NoForecast
    /\ avg_rmses = <<>>
    /\ naive_rmses = <<>>
    /\ seasonal_naive_rmses = <<>>
    /\ avg_mean = NoMean
    /\ naive_mean = NoMean
    /\ seasonal_mean = NoMean
    /\ IdleHoldout
    /\ IdleCall

Next ==
    \/ CVSplitIter
    \/ CVSplitDone
    \/ AvgIter
    \/ NaiveIter
    \/ SeasonalIter
    \/ LoopDone
    \/ Compare

Spec == Init /\ [][Next]_vars

\* The marathon cells: the frame is loaded, the train test split cell is next.
InitHoldout ==
    /\ pc = "m_split"
    /\ L \in 1..MaxL
    /\ marathon \in SeqsUpTo(Values, 1, MaxN)
    /\ marathon_train = <<>>
    /\ marathon_test = <<>>
    /\ rmse = NoNumber
    /\ reported = <<>>
    /\ IdleCV
    /\ IdleCall

NextHoldout ==
    \/ MarathonSplit
    \/ MarathonAvg
    \/ MarathonNaive

SpecHoldout == InitHoldout /\ [][NextHoldout]_vars

\* One call of a forecaster on an arbitrary train and test column.
InitCall ==
    /\ pc = "f_call"
    /\ f_train \in SeqsUpTo(Values, 0, MaxF)
    /\ f_test \in SeqsUpTo(Values, 0, MaxF)
    /\ f_who = "unset"
    /\ f_result = NoForecast
    /\ IdleCV
    /\ IdleHoldout

NextCall ==
    \/ CallNaive
    \/ CallAvg
    \/ CallSeasonal

SpecCall == InitCall /\ [][NextCall]_vars

\* ================================================================ properties
\* the half-open index range [a, b) as an index list
Interval(a, b) == [j \in 1..(b - a) |-> a + j - 1]
SplitsMade == pc # "cv_split"
ValidHorizon == 1 <= H /\ H < N
IsConstant(s) == \A a \in 1..Len(s), b \in 1..Len(s) : s[a] = s[b]

\* C1: for 1 <= H < N the k-th split emitted (k = 0, 1, ...) has
\* train = [0, N - H*(k+1)) and test = [N - H*(k+1), N - H*k); so every test
\* window has H elements, every train window starts at 0 and ends where its
\* test window starts.
C1_SplitShape ==
    ValidHorizon =>
        /\ Len(train_index) = Len(test_index)
        /\ \A k \in 1..Len(test_index) :
              /\ train_index[k] = Interval(0, N - H * k)
              /\ test_index[k] = Interval(N - H * k, N - H * (k - 1))
              /\ Len(test_index[k]) = H
              /\ Len(train_index[k]) > 0
              /\ train_index[k][1] = 0
              /\ train_index[k][Len(train_index[k])] + 1 = test_index[k][1]

C1_Witness ==
    /\ pc = "avg"
    /\ H >= 2
    /\ N % H # 0
    /\ Len(test_index) >= 2

\* C2: for 1 <= H < N the split loop produces floor(N / H) - 1 splits, and
\* none at all when N < 2H.
C2_SplitCount ==
    (SplitsMade /\ ValidHorizon) =>
        /\ Len(train_index) = (N \div H) - 1
        /\ Len(test_index) = (N \div H) - 1
        /\ (N < 2 * H => train_index = <<>> /\ test_index = <<>>)

C2_Witness ==
    /\ pc = "done"
    /\ ValidHorizon
    /\ N % H # 0
    /\ Len(train_index) = 2

\* C3 as stated: for 1 <= H < N and every k >= 0, split k is emitted if and
\* only if its train window [0, N - H*(k+1)) is not empty.
C3_EmittedIffTrainNonEmpty ==
    (SplitsMade /\ ValidHorizon) =>
        \A k \in 0..N : (k < Len(train_index)) <=> (N - H * (k + 1) >= 1)

\* C3 amended: for 1 <= H < N and every k >= 0, split k is emitted if and
\* only if its train window [0, N - H*(k+1)) has at least H elements.
C3_EmittedIffTrainHoldsHorizon ==
    (SplitsMade /\ ValidHorizon) =>
        \A k \in 0..N : (k < Len(train_index)) <=> (N - H * (k + 1) >= H)

C3_Witness ==
    /\ pc = "avg"
    /\ ValidHorizon
    /\ H >= 2
    /\ Len(train_index) >= 1
    /\ N - H * (Len(train_index) + 1) >= 1

\* C4: for every split and each of the three forecasters, the forecast has
\* exactly as many elements as the split's test window, every train window
\* has at least H elements, and so every loop hands one forecast per split
\* to get_rmse and records its error.
ForecastFits(f, k) == f.exc = "" /\ Len(f.val) = Len(test_index[k])

C4_ForecastLength ==
    /\ \A k \in 1..Len(train_index) :
          /\ k <= Len(test_index)
          /\ Len(train_index[k]) >= H
          /\ ForecastFits(avg_forecast(TrainOf(measles_train, k),
                                       TestOf(measles_train, k)), k)
          /\ ForecastFits(naive_forecast(TrainOf(measles_train, k),
                                         TestOf(measles_train, k)), k)
          /\ ForecastFits(naive_seasonal_forecast(TrainOf(measles_train, k),
                                                  TestOf(measles_train, k)), k)
    /\ (pc \in {"avg", "naive", "seasonal"} /\ z > 1) => ForecastFits(pred, z - 1)
    /\ pc \in {"compare", "done"} =>
          /\ Len(avg_rmses) = Len(test_index)
          /\ Len(naive_rmses) = Len(test_index)
          /\ Len(seasonal_naive_rmses) = Len(test_index)

C4_Witness ==
    /\ pc = "seasonal"
    /\ z = 3
    /\ H = 2
    /\ Len(train_index[2]) > H
    /\ Len(pred.val) = 2

\* C5: the seasonal naive forecaster, called with fewer train rows than
\* test rows, fails with InsufficientHistoryError and returns no forecast.
C5_ShortTrainRaises ==
    (pc = "f_done" /\ f_who = "seasonal" /\ Len(f_train) < Len(f_test)) =>
        f_result.exc = "InsufficientHistoryError"

\* C6: with no splits (N < 2H) the driver fails with InsufficientDataError
\* and yields no mean of an empty list of errors.
C6_NoSplitsRaises ==
    (pc = "done" /\ ValidHorizon /\ N < 2 * H) =>
        /\ avg_mean.kind = "InsufficientDataError"
        /\ naive_mean.kind = "InsufficientDataError"
        /\ seasonal_mean.kind = "InsufficientDataError"

\* C7: the forecast a loop makes for a split is the forecast it would make
\* on any series of the same length that has the same values in the split's
\* train window and other values in its test window (any values at all), or
\* another value in any one row outside the train window.
TestRows(k) == {test_index[k][j] + 1 : j \in 1..Len(test_index[k])}
TrainRows(k) == {train_index[k][j] + 1 : j \in 1..Len(train_index[k])}

OtherTestValues(k) ==
    {[j \in 1..N |-> IF j \in TestRows(k) THEN g[j] ELSE measles_train[j]] :
        g \in [TestRows(k) -> Values]}

OtherRowValue(k) ==
    {[measles_train EXCEPT ![j] = v] : j \in (1..N) \ TrainRows(k), v \in Values}

SameTrain(k) == OtherTestValues(k) \cup OtherRowValue(k)

ForecastOf(p, series, k) ==
    IF p = "avg" THEN avg_forecast(TrainOf(series, k), TestOf(series, k))
    ELSE IF p = "naive" THEN naive_forecast(TrainOf(series, k), TestOf(series, k))
    ELSE naive_seasonal_forecast(TrainOf(series, k), TestOf(series, k))

C7_NoPeeking ==
    (pc \in {"avg", "naive", "seasonal"} /\ z > 1) =>
        \A alt \in SameTrain(z - 1) : ForecastOf(pc, alt, z - 1) = pred

C7_Witness ==
    /\ pc = "naive"
    /\ z = 2
    /\ H = 2
    /\ N = 5
    /\ measles_train[3] # measles_train[4]
    /\ measles_train[4] # measles_train[5]
    /\ pred.exc = ""

\* C8: on a constant series with N >= 2H every per-split error of every
\* forecaster is 0 and the three means are 0.
IsZero(x) == x.kind = "rat" /\ x.n = 0

M == Len(marathon)

C9_HoldoutSplit ==
    (pc # "m_split" /\ 1 <= L /\ L < M) =>
        /\ marathon_train = Interval(0, M - L)
        /\ marathon_test = Interval(M - L, M)
        /\ marathon_train \o marathon_test = RangeIndex(M)
        /\ Range(marathon_train) \cap Range(marathon_test) = {}
        /\ pc = "m_avg" => reported = <<>>
        /\ pc \in {"m_naive", "m_done"} =>
              reported[1] = RootMeanSquare(
                                Scale(Mean(SubSeq(marathon, 1, M - L)), L),
                                SubSeq(marathon, M - L + 1, M))
        /\ pc = "m_naive" => Len(reported) = 1
        /\ pc = "m_done" =>
              /\ Len(reported) = 2
              /\ reported[2] = RootMeanSquare(Scale(RInt(marathon[M - L]), L),
                                              SubSeq(marathon, M - L + 1, M))

C9_Witness ==
    /\ pc = "m_done"
    /\ L = 2
    /\ M = 5
    /\ Len(reported) = 2
    /\ reported[1].kind = "sqrt"
    /\ reported[2] # reported[1]

\* C10 as stated: when N is not a multiple of H the first N mod H rows are
\* in no split's train window and in no split's test window.
C10_LeftoverDropped ==
    (SplitsMade /\ ValidHorizon /\ N % H # 0) =>
        \A k \in 1..Len(train_index) : \A j \in 0..((N % H) - 1) :
            /\ j \notin Range(train_index[k])
            /\ j \notin Range(test_index[k])

\* C10 amended: when N is not a multiple of H the first N mod H rows are in
\* every split's train window and in no split's test window.
C10_LeftoverTrainedNeverTested ==
    (SplitsMade /\ ValidHorizon /\ N % H # 0) =>
        \A k \in 1..Len(train_index) : \A j \in 0..((N % H) - 1) :
            /\ j \in Range(train_index[k])
            /\ j \notin Range(test_index[k])

C10_Witness ==
    /\ pc = "compare"
    /\ ValidHorizon
    /\ H >= 2
    /\ N % H # 0
    /\ Len(train_index) >= 2
    /\ 0 \in Range(train_index[Len(train_index)])

====
